---------------------------- MODULE Spec2Model ----------------------------
(***************************************************************************)
(* A model of convert-jmh-to-md.py: the script that turns a JMH result     *)
(* file into a Markdown table, one bar chart per benchmark class and a     *)
(* "Benchmark Graphs" section listing the images of the graph directory.   *)
(*                                                                         *)
(* Text that the script parses (identifiers, parameter strings, numeric    *)
(* strings, file names) is a tuple of one-character strings; text that it  *)
(* only emits is a TLA+ string, built with Str.  The glyphs of the source  *)
(* that the module's strings cannot hold are transliterated: the          *)
(* plus-minus sign is "+-", the backquote is "'", and the pictographs and  *)
(* the Arabic heading are left out or put in English.                      *)
(***************************************************************************)
EXTENDS Integers, Sequences, FiniteSets, TLC

VARIABLES
    fs_graphs_dir,      \* whether docs-site/static/benchmark-graphs exists
    fs_pngs,            \* the names of the *.png files of that directory
    fs_doc,             \* docs-site/benchmarks.md: NoFile or its text
    fs_input,           \* build/reports/benchmarks/jmh-results.json
    pc,                 \* the position of the running script
    exit_status,        \* the status the last run ended with (-1: running)
    data,               \* the value json.load returned
    idx,                \* the next element `for entry in data` visits
    lines,              \* the list `lines`
    benchmarks_by_name, \* the insertion-ordered defaultdict of groups
    gi,                 \* the next group the plot loop visits
    doc_before,         \* history: fs_doc when the running script started
    pngs_before,        \* history: fs_pngs when the running script started
    saved,              \* history: the images this run saved
    repeat,             \* history: this run re-reads the previous run's input
    arg,                \* the argument of the pure function under check
    ret                 \* its result

vars == <<fs_graphs_dir, fs_pngs, fs_doc, fs_input, pc, exit_status, data, idx,
          lines, benchmarks_by_name, gi, doc_before, pngs_before, saved,
          repeat, arg, ret>>

fsVars == <<fs_graphs_dir, fs_pngs, fs_doc, fs_input>>
histVars == <<doc_before, pngs_before, saved, repeat>>
pureVars == <<arg, ret>>

(***************************************************************************)
(* Bounds of the model.                                                    *)
(***************************************************************************)
MaxRecords == 2     \* the longest input list
MaxStrLen == 3      \* the longest string handed to fmt
MaxPercentiles == 2 \* the largest scorePercentiles mapping

(***************************************************************************)
(* Text.                                                                   *)
(***************************************************************************)
RECURSIVE Str(_)
Str(cs) == IF cs = <<>> THEN "" ELSE Head(cs) \o Str(Tail(cs))

\* The characters of the model in code-point order (str comparison, sorted).
Alphabet ==
    <<" ", "$", "+", "-", ".", "/", "0", "1", "2", "3", "4", "5", "6", "7",
      "8", "9", "=", "A", "B", "F", "I", "N", "U", "Y", "_", "a", "b", "c",
      "d", "e", "f", "g", "h", "i", "k", "l", "m", "n", "o", "p", "r", "s",
      "t", "u", "v", "w", "x", "y", "{", "}">>

Ord(c) == CHOOSE i \in 1..Len(Alphabet) : Alphabet[i] = c

\* str.lower(), on the letters of Alphabet.
LowerChar(c) ==
    CASE c = "A" -> "a" [] c = "B" -> "b" [] c = "F" -> "f" [] c = "I" -> "i"
      [] c = "N" -> "n" [] c = "U" -> "u" [] c = "Y" -> "y" [] OTHER -> c

Lower(cs) == [i \in 1..Len(cs) |-> LowerChar(cs[i])]

\* cs < ds as Python compares two str: by code point, a prefix first.
RECURSIVE StrLess(_, _)
StrLess(cs, ds) ==
    IF ds = <<>> THEN FALSE
    ELSE IF cs = <<>> THEN TRUE
    ELSE IF Head(cs) # Head(ds) THEN Ord(Head(cs)) < Ord(Head(ds))
    ELSE StrLess(Tail(cs), Tail(ds))

\* cs.split(sep) for a one-character sep: never empty, "" gives [""].
RECURSIVE Split(_, _)
Split(cs, sep) ==
    IF \A i \in 1..Len(cs) : cs[i] # sep THEN <<cs>>
    ELSE LET k == CHOOSE i \in 1..Len(cs) :
                      cs[i] = sep /\ \A j \in 1..(i - 1) : cs[j] # sep
         IN  <<SubSeq(cs, 1, k - 1)>> \o Split(SubSeq(cs, k + 1, Len(cs)), sep)

\* sep.join(parts), on character tuples.
RECURSIVE Join(_, _)
Join(parts, sep) ==
    IF parts = <<>> THEN <<>>
    ELSE IF Len(parts) = 1 THEN parts[1]
    ELSE parts[1] \o sep \o Join(Tail(parts), sep)

\* sep.join(parts), on emitted strings.
RECURSIVE JoinStr(_, _)
JoinStr(parts, sep) ==
    IF parts = <<>> THEN ""
    ELSE IF Len(parts) = 1 THEN parts[1]
    ELSE parts[1] \o sep \o JoinStr(Tail(parts), sep)

\* cs.replace(old, new) for a one-character old.
RECURSIVE Replace(_, _, _)
Replace(cs, old, new) ==
    IF cs = <<>> THEN <<>>
    ELSE (IF Head(cs) = old THEN new ELSE <<Head(cs)>>)
         \o Replace(Tail(cs), old, new)

DigitChars == <<"0", "1", "2", "3", "4", "5", "6", "7", "8", "9">>
IsDigit(c) == \E d \in 1..10 : DigitChars[d] = c
DigitOf(c) == (CHOOSE d \in 1..10 : DigitChars[d] = c) - 1

\* str(n) of a natural number.
RECURSIVE NatChars(_)
NatChars(n) ==
    IF n < 10 THEN <<DigitChars[n + 1]>>
    ELSE NatChars(n \div 10) \o <<DigitChars[(n % 10) + 1]>>

(***************************************************************************)
(* Python values, as json.load produces them.  A number is a sign, an      *)
(* integer part and the digits of its fraction; NaN and Infinity are the   *)
(* floats json.load reads from the bare tokens NaN and Infinity.  Absent   *)
(* is no value: it marks a key that a dict does not hold.                  *)
(***************************************************************************)
Absent == [t |-> "absent"]
PyNone == [t |-> "none"]
PyNaN == [t |-> "nan"]
PyInf(neg) == [t |-> "inf", neg |-> neg]
PyNum(neg, ip, fr) == [t |-> "num", neg |-> neg, ip |-> ip, fr |-> fr]
PyStr(cs) == [t |-> "str", s |-> cs]
Dict(items) == [t |-> "dict", items |-> items]

\* cs.strip(), for the blank.
RECURSIVE LStrip(_)
LStrip(cs) == IF cs # <<>> /\ Head(cs) = " " THEN LStrip(Tail(cs)) ELSE cs
RECURSIVE RStrip(_)
RStrip(cs) ==
    IF cs # <<>> /\ cs[Len(cs)] = " " THEN RStrip(SubSeq(cs, 1, Len(cs) - 1))
    ELSE cs
Strip(cs) == RStrip(LStrip(cs))

RECURSIVE DigitsToNat(_)
DigitsToNat(cs) ==
    IF cs = <<>> THEN 0
    ELSE 10 * DigitsToNat(SubSeq(cs, 1, Len(cs) - 1)) + DigitOf(cs[Len(cs)])

\* float(s) of a str: blanks stripped, a sign, then nan, inf or infinity in
\* any case, or a decimal literal with at least one digit.  (Exponents and
\* digit-group underscores are not modelled; Alphabet words hold none that
\* the inputs of the model use.)
ParseFloat(cs) ==
    LET s0 == Strip(cs)
        signed == s0 # <<>> /\ Head(s0) \in {"+", "-"}
        neg == signed /\ Head(s0) = "-"
        body == IF signed THEN Tail(s0) ELSE s0
        low == Lower(body)
        dots == {i \in 1..Len(body) : body[i] = "."}
        decimal == /\ \A i \in 1..Len(body) : IsDigit(body[i]) \/ body[i] = "."
                   /\ Cardinality(dots) <= 1
                   /\ \E i \in 1..Len(body) : IsDigit(body[i])
        dot == IF dots = {} THEN Len(body) + 1 ELSE CHOOSE i \in dots : TRUE
        fr == SubSeq(body, dot + 1, Len(body))
    IN  IF low = <<"n", "a", "n">> THEN [ok |-> TRUE, v |-> PyNaN]
        ELSE IF low \in {<<"i", "n", "f">>,
                         <<"i", "n", "f", "i", "n", "i", "t", "y">>}
             THEN [ok |-> TRUE, v |-> PyInf(neg)]
        ELSE IF decimal
             THEN [ok |-> TRUE,
                   v |-> PyNum(neg, DigitsToNat(SubSeq(body, 1, dot - 1)),
                               [i \in 1..Len(fr) |-> DigitOf(fr[i])])]
        ELSE [ok |-> FALSE, exc |-> "ValueError"]

\* float(val): a float of a number or of a numeric str, ValueError for any
\* other str, TypeError for None.
Float(val) ==
    CASE val.t \in {"num", "nan", "inf"} -> [ok |-> TRUE, v |-> val]
      [] val.t = "str" -> ParseFloat(val.s)
      [] OTHER -> [ok |-> FALSE, exc |-> "TypeError"]

\* digits + 1, with the carry out of the leftmost digit.
RECURSIVE IncDigits(_)
IncDigits(ds) ==
    IF ds = <<>> THEN [ds |-> <<>>, carry |-> 1]
    ELSE LET n == Len(ds)
         IN  IF ds[n] < 9
             THEN [ds |-> [ds EXCEPT ![n] = ds[n] + 1], carry |-> 0]
             ELSE LET r == IncDigits(SubSeq(ds, 1, n - 1))
                  IN  [ds |-> r.ds \o <<0>>, carry |-> r.carry]

\* format(x, ".<p>f") of a float: p digits after the point, the value
\* rounded to the nearest; nan and inf have no digits at all.  (Python
\* rounds the double, so a literal that lies halfway between two results
\* goes where its double lies; the model rounds such a literal half to
\* even, and its inputs hold none.)
FormatF(x, p) ==
    CASE x.t = "nan" -> <<"n", "a", "n">>
      [] x.t = "inf" -> (IF x.neg THEN <<"-">> ELSE <<>>) \o <<"i", "n", "f">>
      [] OTHER ->
         LET n == Len(x.fr)
             kept == IF n >= p THEN SubSeq(x.fr, 1, p)
                     ELSE x.fr \o [i \in 1..(p - n) |-> 0]
             rest == IF n > p THEN SubSeq(x.fr, p + 1, n) ELSE <<>>
             tail0 == \A i \in 2..Len(rest) : rest[i] = 0
             last == IF p = 0 THEN x.ip % 10 ELSE kept[p]
             up == /\ rest # <<>>
                   /\ \/ rest[1] > 5
                      \/ rest[1] = 5 /\ ~tail0
                      \/ rest[1] = 5 /\ tail0 /\ last % 2 = 1
             inc == IncDigits(kept)
             frac == IF up THEN inc.ds ELSE kept
             ip == IF up THEN x.ip + inc.carry ELSE x.ip
         IN  (IF x.neg THEN <<"-">> ELSE <<>>) \o NatChars(ip)
             \o (IF p > 0 THEN <<".">> ELSE <<>>)
             \o [i \in 1..Len(frac) |-> DigitChars[frac[i] + 1]]

\* str(val): the text itself of a str, "None" for None, the literal of a
\* number.
StrOf(val) ==
    CASE val.t = "str" -> val.s
      [] val.t = "none" -> <<"N", "o", "n", "e">>
      [] val.t = "nan" -> <<"n", "a", "n">>
      [] val.t = "inf" -> (IF val.neg THEN <<"-">> ELSE <<>>) \o <<"i", "n", "f">>
      [] OTHER -> (IF val.neg THEN <<"-">> ELSE <<>>) \o NatChars(val.ip)
                  \o (IF val.fr = <<>> THEN <<>> ELSE <<".">>)
                  \o [i \in 1..Len(val.fr) |-> DigitChars[val.fr[i] + 1]]

ScoreDecimals == 10
PercentileDecimals == 6

\* def fmt(val)
fmt(val) ==
    LET f == Float(val)
    IN  IF f.ok THEN FormatF(f.v, ScoreDecimals) ELSE StrOf(val)

(***************************************************************************)
(* The row loop.  A dict is read with d.get(key, default): a field holds   *)
(* a Python value or Absent.  An ordered mapping (params, scorePercentiles)*)
(* is the sequence of its items, in the order of the file.                 *)
(***************************************************************************)
Get(v, default) == IF v = Absent THEN default ELSE v

NA == PyStr(<<"N", "/", "A">>)
UnknownClass == <<"U", "n", "k", "n", "o", "w", "n", "C", "l", "a", "s", "s">>
Dash == <<"-">>

\* entry.get('primaryMetric', {}).get(key, 'N/A')
Metric(entry, key) ==
    IF entry.primaryMetric = Absent THEN NA
    ELSE Get(entry.primaryMetric[key], NA)

\* entry.get('primaryMetric', {}).get('scorePercentiles', {})
Percentiles(entry) ==
    IF entry.primaryMetric = Absent THEN <<>>
    ELSE IF entry.primaryMetric.scorePercentiles = Absent THEN <<>>
    ELSE entry.primaryMetric.scorePercentiles.items

\* a < b for two floats; false whenever one of them is nan.
RECURSIVE DigitsLess(_, _)
DigitsLess(a, b) ==
    IF a = <<>> THEN \E i \in 1..Len(b) : b[i] # 0
    ELSE IF b = <<>> THEN FALSE
    ELSE IF Head(a) # Head(b) THEN Head(a) < Head(b)
    ELSE DigitsLess(Tail(a), Tail(b))

MagLess(a, b) == a.ip < b.ip \/ (a.ip = b.ip /\ DigitsLess(a.fr, b.fr))
IsZero(a) == a.t = "num" /\ a.ip = 0 /\ \A i \in 1..Len(a.fr) : a.fr[i] = 0

FloatLess(a, b) ==
    CASE a.t = "nan" \/ b.t = "nan" -> FALSE
      [] a.t = "inf" -> a.neg /\ ~(b.t = "inf" /\ b.neg)
      [] b.t = "inf" -> ~b.neg
      [] IsZero(a) /\ IsZero(b) -> FALSE
      [] a.neg /\ ~b.neg -> TRUE
      [] ~a.neg /\ b.neg -> FALSE
      [] a.neg /\ b.neg -> MagLess(b, a)
      [] OTHER -> MagLess(a, b)

\* sorted(percentiles, key=lambda x: float(x)): the keys, stably sorted by
\* their float; Insert puts a key behind the keys that are not greater.
RECURSIVE Insert(_, _)
Insert(k, sorted) ==
    IF sorted = <<>> THEN <<k>>
    ELSE IF FloatLess(Float(PyStr(k)).v, Float(PyStr(Head(sorted))).v)
         THEN <<k>> \o sorted
    ELSE <<Head(sorted)>> \o Insert(k, Tail(sorted))

RECURSIVE SortedKeys(_)
SortedKeys(items) ==
    IF items = <<>> THEN <<>>
    ELSE Insert(items[Len(items)].k, SortedKeys(SubSeq(items, 1, Len(items) - 1)))

\* percentiles[key]
Lookup(items, key) == (CHOOSE i \in 1..Len(items) : items[i].k = key)

\* The body of the percentile loop: f"P{key}={formatted_value}".
FormatPercentile(key, val) ==
    LET f == Float(val)
        formatted_value == IF f.ok THEN FormatF(f.v, PercentileDecimals)
                           ELSE StrOf(val)
    IN  <<"P">> \o key \o <<"=">> \o formatted_value

\* The percentile summary of a mapping: ok and the text, or the ValueError
\* float(x) raises in the sort key for a key that is no number.
FormatPercentiles(items) ==
    IF \E i \in 1..Len(items) : ~Float(PyStr(items[i].k)).ok
    THEN [ok |-> FALSE, exc |-> "ValueError"]
    ELSE LET keys == SortedKeys(items)
             formatted_percentiles ==
                 [i \in 1..Len(keys) |->
                     FormatPercentile(keys[i], items[Lookup(items, keys[i])].v)]
         IN  [ok |-> TRUE, s |-> Join(formatted_percentiles, <<",", " ">>)]

\* ', '.join(f"{k}={v}" for k, v in params_dict.items()).replace('$', r'\$')
\* if params_dict else "-"
FormatParams(entry) ==
    LET params_dict == (IF entry.params = Absent THEN <<>> ELSE entry.params.items)
    IN  IF params_dict = <<>> THEN Dash
        ELSE Replace(Join([i \in 1..Len(params_dict) |->
                              params_dict[i].k \o <<"=">> \o params_dict[i].v],
                          <<",", " ">>),
                     "$", <<"\\", "$">>)

Parts(entry) == Split(Get(entry.benchmark, NA).s, ".")

\* benchmark_full_class_name: the group key.
FullClassName(entry) ==
    LET parts == Parts(entry)
    IN  IF Len(parts) > 1 THEN Join(SubSeq(parts, 1, Len(parts) - 1), <<".">>)
        ELSE UnknownClass

ClassName(entry) ==
    LET parts == Parts(entry)
    IN  IF Len(parts) > 1 THEN parts[Len(parts) - 1] ELSE UnknownClass

MethodName(entry) == LET parts == Parts(entry) IN parts[Len(parts)]

\* The table row of a record whose percentile summary is pct.
RowLine(entry, pct) ==
    "| '" \o Str(ClassName(entry)) \o "." \o Str(MethodName(entry)) \o "' | "
    \o Str(FormatParams(entry)) \o " | " \o Str(StrOf(Get(entry.mode, NA)))
    \o " | " \o Str(fmt(Metric(entry, "score")))
    \o " | +-" \o Str(fmt(Metric(entry, "scoreError")))
    \o " | " \o Str(StrOf(Metric(entry, "scoreUnit")))
    \o " | " \o Str(pct) \o " |"

\* The dict appended to benchmarks_by_name[benchmark_full_class_name].
GroupItem(entry) ==
    [method |-> MethodName(entry), params |-> FormatParams(entry),
     score |-> Metric(entry, "score"), error |-> Metric(entry, "scoreError"),
     unit |-> Metric(entry, "scoreUnit")]

\* benchmarks_by_name[key].append(item): a defaultdict keeps its keys in the
\* order of their first use.
GroupAppend(groups, key, item) ==
    IF \E i \in 1..Len(groups) : groups[i].key = key
    THEN [i \in 1..Len(groups) |->
             IF groups[i].key = key
             THEN [groups[i] EXCEPT !.results = Append(@, item)]
             ELSE groups[i]]
    ELSE Append(groups, [key |-> key, results |-> <<item>>])

\* Whether a record joins its group: `if score is not None`.
Charted(entry) == Metric(entry, "score") # PyNone

\* A row loop that appends the row where it appends to the group.
NextLinesIfCharted(ls, entry, pct) ==
    IF Charted(entry) THEN Append(ls, RowLine(entry, pct)) ELSE ls

\* `lines` after the pass of the row loop over entry: lines.append(...)
NextLines(ls, entry, pct) == Append(ls, RowLine(entry, pct))

\* A row loop without `if score is not None`.
NextGroupsUnguarded(groups, entry) ==
    GroupAppend(groups, FullClassName(entry), GroupItem(entry))

\* benchmarks_by_name after the pass of the row loop over entry.
NextGroups(groups, entry) ==
    IF Charted(entry)
    THEN GroupAppend(groups, FullClassName(entry), GroupItem(entry))
    ELSE groups

(***************************************************************************)
(* The plot loop.                                                          *)
(***************************************************************************)
BenchmarkInterpolation ==
    <<"b", "e", "n", "c", "h", "m", "a", "r", "k", "I", "n", "t", "e", "r",
      "p", "o", "l", "a", "t", "i", "o", "n">>

\* len(re.compile(r'\$\{[^}]+\}').findall(cs)): the matches, left to right
\* and not overlapping, of "${", one character or more that is not "}", "}".
RECURSIVE CountPlaceholders(_)
CountPlaceholders(cs) ==
    IF Len(cs) < 4 THEN 0
    ELSE LET closes == {j \in 3..Len(cs) : cs[j] = "}"}
             first == CHOOSE j \in closes : \A k \in closes : j <= k
         IN  IF cs[1] = "$" /\ cs[2] = "{" /\ closes # {} /\ first > 3
             THEN 1 + CountPlaceholders(SubSeq(cs, first + 1, Len(cs)))
             ELSE CountPlaceholders(Tail(cs))

\* f"param {i} -> {n} variable(s)"
InterpolationLabel(i, n) ==
    <<"p", "a", "r", "a", "m", " ">> \o NatChars(i) \o <<" ", "-", ">", " ">>
    \o NatChars(n)
    \o <<" ", "v", "a", "r", "i", "a", "b", "l", "e", "(", "s", ")">>

\* The list `params` of the plot loop: the category label of each bar.
CategoryLabels(results) ==
    LET method == {results[i].method : i \in 1..Len(results)}
    IN  IF Cardinality(method) = 1 /\ BenchmarkInterpolation \in method
        THEN [i \in 1..Len(results) |->
                 InterpolationLabel(i - 1, CountPlaceholders(results[i].params))]
        ELSE IF \A i \in 1..Len(results) : results[i].params = Dash
             THEN [i \in 1..Len(results) |-> results[i].method]
        ELSE [i \in 1..Len(results) |-> results[i].params]

\* Whether drawing the group raises: plt.bar cannot draw an error bar that
\* is a str or None, and f"{score:.6f}" raises ValueError for a score that
\* is a str.
PlotRaises(results) ==
    \E i \in 1..Len(results) :
        \/ results[i].score.t = "str"
        \/ results[i].error.t \in {"str", "none"}

ComparisonPng == <<"_", "c", "o", "m", "p", "a", "r", "i", "s", "o", "n",
                   ".", "p", "n", "g">>

\* output_path.name: f"{benchmark_full_class_name}_comparison.png"
PngName(key) == key \o ComparisonPng

(***************************************************************************)
(* The graphs section and the document.                                    *)
(***************************************************************************)
\* sorted(graphs_dir.glob("*.png")): the names in str order.
RECURSIVE SortedNames(_)
SortedNames(S) ==
    IF S = {} THEN <<>>
    ELSE LET least == CHOOSE n \in S : \A m \in S : m = n \/ StrLess(n, m)
         IN  <<least>> \o SortedNames(S \ {least})

\* img_path.stem.split(".")[-1].replace("_", " ")
Title(name) ==
    LET stem == SubSeq(name, 1, Len(name) - 4)
        parts == Split(stem, ".")
    IN  Replace(parts[Len(parts)], "_", <<" ">>)

ImageLines(name) ==
    <<"### " \o Str(Title(name)),
      "![" \o Str(Title(name)) \o "](static/benchmark-graphs/" \o Str(name) \o ")",
      "">>

RECURSIVE AllImageLines(_)
AllImageLines(graph_paths) ==
    IF graph_paths = <<>> THEN <<>>
    ELSE ImageLines(Head(graph_paths)) \o AllImageLines(Tail(graph_paths))

HeaderLines ==
    <<"# Benchmark Results",
      "",
      "| Benchmark | Params | Mode | Score | Error | Units | Percentiles |",
      "|-----------|--------|------|-------|-------|--------|--------------|">>

Trailer == "\n\n---\n\n## Related files\n\n* [Home](./index.md)\n\n---\n"

\* What lines 116 to 137 append to `lines` when the directory holds pngs.
GraphsSection(pngs) ==
    <<"\n---\n", "## Benchmark Graphs\n">> \o AllImageLines(SortedNames(pngs))
    \o <<Trailer>>

NoFile == [t |-> "nofile"]
Text(s) == [t |-> "text", s |-> s]

\* A file opened to append: the text follows what the file held.
WriteAppending(old, text) == IF old = NoFile THEN text ELSE old.s \o text

\* output_file.write_text(text): the file holds text, whatever it held.
WriteText(old, text) == text

(***************************************************************************)
(* The input files of the model.  A record is a JSON object with the keys  *)
(* the script reads; Other is a list element that is no object.            *)
(***************************************************************************)
Rec(benchmark, params, primaryMetric) ==
    [e |-> "rec", benchmark |-> benchmark, mode |-> PyStr(<<"a", "v", "g", "t">>),
     params |-> params, primaryMetric |-> primaryMetric]

PM(score, scoreError, scorePercentiles) ==
    [score |-> score, scoreError |-> scoreError,
     scoreUnit |-> PyStr(<<"o", "p", "s">>),
     scorePercentiles |-> scorePercentiles]

Other == [e |-> "other"]
EmptyRec == [e |-> "rec", benchmark |-> Absent, mode |-> Absent,
             params |-> Absent, primaryMetric |-> Absent]

P50 == <<"5", "0", ".", "0">>
P9 == <<"9", ".", "0">>

Entries ==
    { \* a.F.m: no params, two percentiles out of numeric order
      Rec(PyStr(<<"a", ".", "F", ".", "m">>), Absent,
          PM(PyNum(FALSE, 1, <<5>>), PyNum(FALSE, 0, <<2, 5>>),
             Dict(<<[k |-> P50, v |-> PyNum(FALSE, 1, <<2, 3, 4, 5, 6, 7, 8, 9>>)],
                    [k |-> P9, v |-> PyNum(FALSE, 5, <<>>)]>>))),
      \* a.F.benchmarkInterpolation with a placeholder parameter
      Rec(PyStr(<<"a", ".", "F", ".">> \o BenchmarkInterpolation),
          Dict(<<[k |-> <<"t">>, v |-> <<"$", "{", "x", "}">>]>>),
          PM(PyNum(FALSE, 3, <<>>), PyNum(FALSE, 0, <<1>>), Absent)),
      \* a.F.benchmarkInterpolation without parameters
      Rec(PyStr(<<"a", ".", "F", ".">> \o BenchmarkInterpolation), Absent,
          PM(PyNum(FALSE, 4, <<>>), PyNum(FALSE, 0, <<1>>), Absent)),
      \* a.B.n, whose score and error are null
      Rec(PyStr(<<"a", ".", "B", ".", "n">>), Absent,
          PM(PyNone, PyNone, Absent)),
      \* {}: every field falls back to its default
      EmptyRec,
      \* a list element that is not an object
      Other }

RECURSIVE SeqsUpTo(_, _)
SeqsUpTo(S, n) ==
    IF n = 0 THEN {<<>>}
    ELSE LET shorter == SeqsUpTo(S, n - 1)
         IN  shorter \cup {Append(q, x) : q \in {r \in shorter : Len(r) = n - 1},
                                           x \in S}

JList(items) == [j |-> "list", items |-> items]

Documents ==
    {JList(items) : items \in SeqsUpTo(Entries, MaxRecords)}
    \cup {[j |-> "null"], [j |-> "number"],
          [j |-> "string", s |-> <<>>], [j |-> "string", s |-> <<"a", "b">>],
          [j |-> "object", keys |-> <<>>], [j |-> "object", keys |-> <<<<"a">>>>]}

Missing == [kind |-> "missing"]
Garbled == [kind |-> "file", valid |-> FALSE]
File(json) == [kind |-> "file", valid |-> TRUE, json |-> json]

InputFiles == {Missing, Garbled} \cup {File(d) : d \in Documents}

\* What `for entry in data` visits: the items of a list, the keys of an
\* object, the characters of a string; a number and null are not iterable.
Iterable(d) == d.j \in {"list", "object", "string"}
Elements(d) ==
    CASE d.j = "list" -> d.items
      [] d.j = "object" -> [i \in 1..Len(d.keys) |-> Other]
      [] d.j = "string" -> [i \in 1..Len(d.s) |-> Other]
      [] OTHER -> <<>>

(***************************************************************************)
(* The script, one action per step.                                        *)
(***************************************************************************)
NoData == [j |-> "null"]

\* The process ends: with status 0, or with status 1 after sys.exit(1) or
\* an exception nothing catches.  Its locals die with it.
Finish(status) ==
    /\ pc' = "done"
    /\ exit_status' = status
    /\ data' = NoData
    /\ idx' = 0
    /\ lines' = <<>>
    /\ benchmarks_by_name' = <<>>
    /\ gi' = 0

\* The harness has left the input file in any state, and the script is
\* started.
Start ==
    /\ pc = "idle"
    /\ fs_input' \in InputFiles
    /\ repeat' = FALSE
    /\ pc' = "mkdir"
    /\ exit_status' = -1
    /\ doc_before' = fs_doc
    /\ pngs_before' = fs_pngs
    /\ saved' = {}
    /\ UNCHANGED <<fs_graphs_dir, fs_pngs, fs_doc, data, idx, lines,
                   benchmarks_by_name, gi, arg, ret>>

\* The script is started again on the input file the run before it read.
Rerun ==
    /\ pc = "done"
    /\ fs_input' = fs_input
    /\ repeat' = TRUE
    /\ pc' = "mkdir"
    /\ exit_status' = -1
    /\ doc_before' = fs_doc
    /\ pngs_before' = fs_pngs
    /\ saved' = {}
    /\ UNCHANGED <<fs_graphs_dir, fs_pngs, fs_doc, data, idx, lines,
                   benchmarks_by_name, gi, arg, ret>>

\* The build directory is cleaned for the next benchmark run: the input
\* file is gone until the harness writes it, and the history of the last
\* run of the script is dropped.
Clean ==
    /\ pc = "done"
    /\ pc' = "idle"
    /\ fs_input' = Missing
    /\ exit_status' = -1
    /\ doc_before' = fs_doc
    /\ pngs_before' = fs_pngs
    /\ saved' = {}
    /\ repeat' = FALSE
    /\ UNCHANGED <<fs_graphs_dir, fs_pngs, fs_doc, data, idx, lines,
                   benchmarks_by_name, gi, arg, ret>>

\* graphs_dir.mkdir(parents=True, exist_ok=True)
MkGraphsDir ==
    /\ pc = "mkdir"
    /\ fs_graphs_dir' = TRUE
    /\ pc' = "check"
    /\ UNCHANGED <<fs_pngs, fs_doc, fs_input, exit_status, data, idx, lines,
                   benchmarks_by_name, gi, arg, ret>>
    /\ UNCHANGED histVars

\* sys.exit() with no argument: status 0.
ExitDefault == 1 - 1

\* The argument of sys.exit(1).
ExitMissing == 1

\* if not input_file.exists(): ... sys.exit(1)
CheckInput ==
    /\ pc = "check"
    /\ IF fs_input = Missing
       THEN Finish(ExitMissing)
       ELSE /\ pc' = "load"
            /\ UNCHANGED <<exit_status, data, idx, lines, benchmarks_by_name, gi>>
    /\ UNCHANGED <<fsVars, histVars, pureVars>>

\* data = json.load(f), then the header of `lines` and the empty groups.
Load ==
    /\ pc = "load"
    /\ IF ~fs_input.valid
       THEN Finish(1)
       ELSE /\ data' = fs_input.json
            /\ lines' = HeaderLines
            /\ benchmarks_by_name' = <<>>
            /\ idx' = 1
            /\ pc' = "rows"
            /\ UNCHANGED <<exit_status, gi>>
    /\ UNCHANGED <<fsVars, histVars, pureVars>>

\* One pass of `for entry in data`, or the end of the loop.
RowStep ==
    /\ pc = "rows"
    /\ IF ~Iterable(data)
       THEN Finish(1)
       ELSE IF idx > Len(Elements(data))
       THEN /\ pc' = "plot"
            /\ gi' = 1
            /\ UNCHANGED <<exit_status, data, idx, lines, benchmarks_by_name>>
       ELSE LET entry == Elements(data)[idx]
            IN  IF entry.e # "rec"
                THEN Finish(1)
                ELSE LET pct == FormatPercentiles(Percentiles(entry))
                     IN  IF ~pct.ok
                         THEN Finish(1)
                         ELSE /\ lines' = NextLines(lines, entry, pct.s)
                              /\ benchmarks_by_name' =
                                     NextGroups(benchmarks_by_name, entry)
                              /\ idx' = idx + 1
                              /\ UNCHANGED <<pc, exit_status, data, gi>>
    /\ UNCHANGED <<fsVars, histVars, pureVars>>

\* One pass of the plot loop: the chart of a group is drawn and saved, or
\* the end of the loop.
PlotStep ==
    /\ pc = "plot"
    /\ IF gi > Len(benchmarks_by_name)
       THEN /\ pc' = "graphs"
            /\ UNCHANGED <<exit_status, data, idx, lines, benchmarks_by_name, gi,
                           fs_pngs, saved>>
       ELSE LET group == benchmarks_by_name[gi]
            IN  IF PlotRaises(group.results)
                THEN Finish(1) /\ UNCHANGED <<fs_pngs, saved>>
                ELSE /\ fs_pngs' = fs_pngs \cup {PngName(group.key)}
                     /\ saved' = saved \cup {PngName(group.key)}
                     /\ gi' = gi + 1
                     /\ UNCHANGED <<pc, exit_status, data, idx, lines,
                                    benchmarks_by_name>>
    /\ UNCHANGED <<fs_graphs_dir, fs_doc, fs_input, doc_before, pngs_before,
                   repeat, arg, ret>>

\* The graphs step of a script that writes the table before it appends
\* the section, and the whole document after.
GraphsAfterFirstWrite ==
    /\ pc = "graphs"
    /\ fs_doc' = Text(WriteText(fs_doc, JoinStr(lines, "\n")))
    /\ lines' = lines \o GraphsSection(fs_pngs)
    /\ pc' = "write"
    /\ UNCHANGED <<exit_status, data, idx, benchmarks_by_name, gi>>
    /\ UNCHANGED <<fs_graphs_dir, fs_pngs, fs_input, histVars, pureVars>>

\* graph_paths = sorted(graphs_dir.glob("*.png")) and the lines of the
\* section, then the trailer.
Graphs ==
    /\ pc = "graphs"
    /\ lines' = lines \o GraphsSection(fs_pngs)
    /\ pc' = "write"
    /\ UNCHANGED <<exit_status, data, idx, benchmarks_by_name, gi>>
    /\ UNCHANGED <<fsVars, histVars, pureVars>>

\* output_file.write_text("\n".join(lines)), and the script ends.
Write ==
    /\ pc = "write"
    /\ fs_doc' = Text(WriteText(fs_doc, JoinStr(lines, "\n")))
    /\ Finish(0)
    /\ UNCHANGED <<fs_graphs_dir, fs_pngs, fs_input>>
    /\ UNCHANGED <<histVars, pureVars>>

Init ==
    /\ fs_graphs_dir = FALSE
    /\ fs_pngs = {}
    /\ fs_doc \in {NoFile, Text("old")}
    /\ fs_input = Missing
    /\ pc = "idle"
    /\ exit_status = -1
    /\ data = NoData
    /\ idx = 0
    /\ lines = <<>>
    /\ benchmarks_by_name = <<>>
    /\ gi = 0
    /\ doc_before = fs_doc
    /\ pngs_before = {}
    /\ saved = {}
    /\ repeat = FALSE
    /\ arg = PyNone
    /\ ret = <<>>

Next ==
    \/ Start
    \/ Rerun
    \/ Clean
    \/ MkGraphsDir
    \/ CheckInput
    \/ Load
    \/ RowStep
    \/ PlotStep
    \/ Graphs
    \/ Write

Spec == Init /\ [][Next]_vars

(***************************************************************************)
(* fmt and the percentile summary on their own: the specification draws    *)
(* an argument and one action applies the function to it.                  *)
(***************************************************************************)
AtRest ==
    /\ fs_graphs_dir = FALSE
    /\ fs_pngs = {}
    /\ fs_doc = NoFile
    /\ fs_input = Missing
    /\ exit_status = -1
    /\ data = NoData
    /\ idx = 0
    /\ lines = <<>>
    /\ benchmarks_by_name = <<>>
    /\ gi = 0
    /\ doc_before = NoFile
    /\ pngs_before = {}
    /\ saved = {}
    /\ repeat = FALSE

FmtAlphabet == {"N", "a", "A", "/", "1", "."}

FmtInputs ==
    {PyStr(cs) : cs \in SeqsUpTo(FmtAlphabet, MaxStrLen)}
    \cup {PyNum(neg, ip, fr) : neg \in BOOLEAN, ip \in {0, 12},
                               fr \in {<<>>, <<5>>, <<0, 0, 0, 0, 0, 0, 0, 0, 0, 0, 4>>,
                                       <<9, 9, 9, 9, 9, 9, 9, 9, 9, 9, 9>>}}
    \cup {PyNone, PyNaN, PyInf(FALSE), PyInf(TRUE)}

InitFmt ==
    /\ AtRest
    /\ pc = "call"
    /\ arg \in FmtInputs
    /\ ret = <<>>

ApplyFmt ==
    /\ pc = "call"
    /\ ret' = fmt(arg)
    /\ pc' = "return"
    /\ UNCHANGED <<fsVars, histVars, exit_status, data, idx, lines,
                   benchmarks_by_name, gi, arg>>

NextFmt == ApplyFmt

SpecFmt == InitFmt /\ [][NextFmt]_vars

PctKeys == {P50, P9, <<"9">>, <<"x">>}

PctValues ==
    {PyNum(FALSE, 1, <<2, 3, 4, 5, 6, 7, 8, 9>>), PyNum(FALSE, 5, <<>>),
     NA, PyStr(<<"N", "a", "N">>)}

PctInputs ==
    {items \in SeqsUpTo([k : PctKeys, v : PctValues], MaxPercentiles) :
        \A i, j \in 1..Len(items) : i # j => items[i].k # items[j].k}

InitPct ==
    /\ AtRest
    /\ pc = "call"
    /\ arg \in {Dict(items) : items \in PctInputs}
    /\ ret = <<>>

ApplyPercentiles ==
    /\ pc = "call"
    /\ ret' = FormatPercentiles(arg.items)
    /\ pc' = "return"
    /\ UNCHANGED <<fsVars, histVars, exit_status, data, idx, lines,
                   benchmarks_by_name, gi, arg>>

NextPct == ApplyPercentiles

SpecPct == InitPct /\ [][NextPct]_vars

(***************************************************************************)
(* What the claims speak of.                                               *)
(***************************************************************************)
IsList(f) == f.kind = "file" /\ f.valid /\ f.json.j = "list"
IsRecordList(f) ==
    IsList(f) /\ \A i \in 1..Len(f.json.items) : f.json.items[i].e = "rec"

Completed == pc = "done" /\ exit_status = 0
Aborted == pc = "done" /\ exit_status # 0

\* The rows of a list of records, each formatted on its own.
RowsOf(items) ==
    [i \in 1..Len(items) |->
        RowLine(items[i], FormatPercentiles(Percentiles(items[i])).s)]

\* The document of a list of records whose graphs section lists pngs.
DocumentOf(items, pngs) ==
    Text(JoinStr(HeaderLines \o RowsOf(items) \o GraphsSection(pngs), "\n"))

\* cs is a decimal with exactly p digits after its point.
HasDecimals(cs, p) ==
    LET body == IF cs # <<>> /\ Head(cs) = "-" THEN Tail(cs) ELSE cs
        n == Len(body)
    IN  /\ n >= p + 2
        /\ body[n - p] = "."
        /\ \A i \in 1..n : i # n - p => IsDigit(body[i])

(***************************************************************************)
(* C1: a run on a non-empty list of records that completes leaves a        *)
(* document whose table is the header followed by the row of the first     *)
(* record, the row of the second, and so on to the last: one row per       *)
(* record, in input order, records with a null score included.             *)
(***************************************************************************)
C1_OneRowPerRecord ==
    (Completed /\ IsRecordList(fs_input) /\ fs_input.json.items # <<>>)
        => fs_doc = DocumentOf(fs_input.json.items, fs_pngs)

C1_Witness ==
    /\ Completed
    /\ IsRecordList(fs_input)
    /\ Len(fs_input.json.items) >= 2
    /\ fs_input.json.items[1] # fs_input.json.items[2]
    /\ \E i \in 1..Len(fs_input.json.items) : ~Charted(fs_input.json.items[i])
    /\ \E i \in 1..Len(fs_input.json.items) : Charted(fs_input.json.items[i])

(***************************************************************************)
(* C2: a run that finds no input file ends with a non-zero status, and     *)
(* the document is, at every step of the run and at its end, what it was   *)
(* when the run began: absent if it was absent, the same text otherwise.   *)
(***************************************************************************)
C2_MissingInput ==
    (fs_input = Missing /\ pc # "idle")
        => /\ fs_doc = doc_before
           /\ pc = "done" => exit_status # 0

C2_Witness ==
    /\ pc = "done"
    /\ fs_input = Missing
    /\ exit_status = 1
    /\ doc_before # NoFile
    /\ doc_before # Text("old")

(***************************************************************************)
(* C3: a run on a list of records never aborts, whatever is not numeric    *)
(* among their scores, errors and percentile values: it completes and its  *)
(* document holds the rows of all the records.                             *)
(***************************************************************************)
C3_FieldsNeverAbort ==
    (pc = "done" /\ IsRecordList(fs_input))
        => /\ exit_status = 0
           /\ fs_doc = DocumentOf(fs_input.json.items, fs_pngs)

(***************************************************************************)
(* C4: a run that reads the input file its predecessor read leaves the     *)
(* document its predecessor left, whatever the document and the image      *)
(* directory held before the two.                                          *)
(***************************************************************************)
C4_Idempotent == (pc = "done" /\ repeat) => fs_doc = doc_before

C4_Witness ==
    /\ Completed
    /\ repeat
    /\ IsRecordList(fs_input)
    /\ fs_input.json.items # <<>>
    /\ saved # {}

(***************************************************************************)
(* C5: fmt returns, for every argument, either a decimal with exactly 10   *)
(* digits after the point or the text of the argument unchanged.           *)
(***************************************************************************)
C5_TenDecimalsOrRaw ==
    pc = "return" => HasDecimals(ret, ScoreDecimals) \/ ret = StrOf(arg)

(***************************************************************************)
(* C6: the percentile summary of a mapping with numeric keys is its        *)
(* entries in ascending numeric key order, each rendered as P<key>=<value>,*)
(* the value with 6 decimals if it is a number and as its raw text if it   *)
(* is not, joined with ", "; the empty mapping gives the empty text.       *)
(***************************************************************************)
NumericKeys(items) == \A i \in 1..Len(items) : ParseFloat(items[i].k).ok

Ascending(items, p) ==
    \A i \in 1..(Len(items) - 1) :
        ~FloatLess(ParseFloat(items[p[i + 1]].k).v, ParseFloat(items[p[i]].k).v)

Orderings(n) == {p \in [1..n -> 1..n] : \A i, j \in 1..n : i # j => p[i] # p[j]}

ClaimedValue(v) ==
    IF v.t = "num" THEN FormatF(v, PercentileDecimals) ELSE StrOf(v)

ClaimedEntry(item) == <<"P">> \o item.k \o <<"=">> \o ClaimedValue(item.v)

C6_PercentileSummary ==
    (pc = "return" /\ NumericKeys(arg.items))
        => /\ ret.ok
           /\ \E p \in Orderings(Len(arg.items)) :
                  /\ Ascending(arg.items, p)
                  /\ ret.s = Join([i \in 1..Len(arg.items) |->
                                      ClaimedEntry(arg.items[p[i]])],
                                  <<",", " ">>)

\* What does hold of the summary: the claim with a value that float() reads
\* rendered as format(float(value), ".6f"), which is nan for "NaN".
PercentilesOrdered ==
    (pc = "return" /\ NumericKeys(arg.items))
        => /\ ret.ok
           /\ \E p \in Orderings(Len(arg.items)) :
                  /\ Ascending(arg.items, p)
                  /\ ret.s = Join([i \in 1..Len(arg.items) |->
                                      FormatPercentile(arg.items[p[i]].k,
                                                       arg.items[p[i]].v)],
                                  <<",", " ">>)

(***************************************************************************)
(* C7: a run whose input file exists and holds no valid JSON, or valid     *)
(* JSON that is not a list, fails and does not write the document.         *)
(***************************************************************************)
C7_MalformedInputFails ==
    (pc = "done" /\ fs_input.kind = "file" /\ ~IsList(fs_input))
        => exit_status # 0 /\ fs_doc = doc_before

(***************************************************************************)
(* C8: when the row loop has ended, every record of the list is in         *)
(* exactly one group, the group of its class-level identifier, in input    *)
(* order; and in a group whose members all have no parameters the label    *)
(* of every member is its method name.                                     *)
(***************************************************************************)
RowsEnded == pc = "plot" /\ IsRecordList(fs_input)

Keys(items) == {FullClassName(items[i]) : i \in 1..Len(items)}

GroupOf(key) ==
    CHOOSE i \in 1..Len(benchmarks_by_name) : benchmarks_by_name[i].key = key

SameKey(items, key) ==
    SelectSeq(items, LAMBDA r : FullClassName(r) = key)

ItemsOf(records) == [i \in 1..Len(records) |-> GroupItem(records[i])]

NoParams(results) == \A i \in 1..Len(results) : results[i].params = Dash

AllInterpolation(results) ==
    \A i \in 1..Len(results) : results[i].method = BenchmarkInterpolation

MethodLabels(results) ==
    CategoryLabels(results) = [i \in 1..Len(results) |-> results[i].method]

C8_EveryRecordGrouped ==
    RowsEnded =>
        LET items == data.items
        IN  /\ \A i, j \in 1..Len(benchmarks_by_name) :
                   i # j => benchmarks_by_name[i].key # benchmarks_by_name[j].key
            /\ {benchmarks_by_name[i].key : i \in 1..Len(benchmarks_by_name)}
                   = Keys(items)
            /\ \A key \in Keys(items) :
                   benchmarks_by_name[GroupOf(key)].results
                       = ItemsOf(SameKey(items, key))
            /\ \A i \in 1..Len(benchmarks_by_name) :
                   NoParams(benchmarks_by_name[i].results)
                       => MethodLabels(benchmarks_by_name[i].results)

(***************************************************************************)
(* C8 as amended: when the row loop has ended, every record whose score    *)
(* is not null is in exactly one group, the group of its class-level       *)
(* identifier, in input order, and a record whose score is null is in no   *)
(* group; in a group whose members all have no parameters and are not all  *)
(* benchmarkInterpolation, the label of every member is its method name.   *)
(***************************************************************************)
C8_ChartedRecordsGrouped ==
    RowsEnded =>
        LET items == SelectSeq(data.items, Charted)
        IN  /\ \A i, j \in 1..Len(benchmarks_by_name) :
                   i # j => benchmarks_by_name[i].key # benchmarks_by_name[j].key
            /\ {benchmarks_by_name[i].key : i \in 1..Len(benchmarks_by_name)}
                   = Keys(items)
            /\ \A key \in Keys(items) :
                   benchmarks_by_name[GroupOf(key)].results
                       = ItemsOf(SameKey(items, key))
            /\ \A i \in 1..Len(benchmarks_by_name) :
                   (/\ NoParams(benchmarks_by_name[i].results)
                    /\ ~AllInterpolation(benchmarks_by_name[i].results))
                       => MethodLabels(benchmarks_by_name[i].results)

C8_Witness ==
    /\ RowsEnded
    /\ \E i \in 1..Len(benchmarks_by_name) :
           LET results == benchmarks_by_name[i].results
           IN  /\ Len(results) >= 2
               /\ NoParams(results)
               /\ results[1].method # results[2].method

(***************************************************************************)
(* C9: the graphs section of the document a completed run leaves lists     *)
(* the images that run saved and no other: one per group of its input.     *)
(***************************************************************************)
ItemsRead(f) == IF IsList(f) THEN f.json.items ELSE <<>>

C9_OnlyOwnImages ==
    Completed =>
        /\ fs_doc = DocumentOf(ItemsRead(fs_input), saved)
        /\ saved = {PngName(key) :
                       key \in Keys(SelectSeq(ItemsRead(fs_input), Charted))}

(***************************************************************************)
(* C10: the document changes only in the step that writes it, which is     *)
(* taken once the row loop and the plot loop have ended and which ends     *)
(* the run with status 0; so the document is what it was when the run      *)
(* began at every step before that one and at the end of a run that        *)
(* aborts.                                                                 *)
(***************************************************************************)
C10_Step ==
    /\ fs_doc' # fs_doc
           => /\ pc = "write" /\ Completed'
              /\ idx > Len(Elements(data))
              /\ gi > Len(benchmarks_by_name)
    /\ (pc' \notin {"idle", "done"} \/ Aborted') => fs_doc' = doc_before'

C10_WrittenOnceAtTheEnd == [][C10_Step]_vars

C10_Witness ==
    /\ Aborted
    /\ IsRecordList(fs_input)
    /\ saved # {}
    /\ doc_before # NoFile
    /\ doc_before # Text("old")

=============================================================================
